---------------------------- MODULE Spec2Model ----------------------------
(***************************************************************************)
(* A model of image-cropper (src/main.rs): the two geometric stages        *)
(* crop_transparent_edges and crop_to_aspect_ratio on in-memory images,    *)
(* and the driver (main, process_directory, process_file) on a small file  *)
(* system with a pool of rayon workers.                                    *)
(*                                                                         *)
(* An image is a record [width, height, px] where px maps <<x, y>> to the  *)
(* pixel's alpha byte (pixel[3] in the source); the colour channels never  *)
(* influence the program and are left out.                                 *)
(***************************************************************************)
EXTENDS Integers, Sequences, FiniteSets, TLC

VARIABLES
    overflowChecks, \* build profile: TRUE = debug (u32 overflow panics), FALSE = release (wraps)
    gStage,         \* position of the pipeline run on one in-memory image
    gImg,           \* the decoded image handed to crop_transparent_edges
    gBox,           \* the rectangle crop_transparent_edges computed
    gTrim,          \* the result of crop_transparent_edges
    gWin,           \* the crop window crop_to_aspect_ratio computed
    gOut,           \* the outcome of crop_to_aspect_ratio
    cliInput,       \* --input-path: "dir" (a directory) or "file" (a single file)
    cliOutput,      \* --output-path: "none", "out" (another directory) or "same" (the input directory)
    dirs,           \* the directories that exist
    files,          \* the content of every file path
    files0,         \* the content of every file path when the program started
    mainPc,         \* position of main
    mode,           \* the branch main took: "none", "directory" or "file"
    exit,           \* how the process ended: "running", "ok", "error" or "panic"
    output_path,    \* the resolved output directory
    queue,          \* the paths glob yields, in its order
    itemPc,         \* position of process_file on each item
    itemBuf,        \* the image process_file holds for each item
    itemErr,        \* the Err process_file returned for each item
    invoked,        \* number of process_file calls per item
    written,        \* number of output files written per item
    reported,       \* number of "Failed to process file" lines per item
    dirCreations    \* number of create_dir_all calls that succeeded

geomVars == <<gStage, gImg, gBox, gTrim, gWin, gOut>>

fsVars == <<dirs, files>>
itemVars == <<itemPc, itemBuf, itemErr, invoked, written, reported>>
driverVars == <<cliInput, cliOutput, files0, mainPc, mode, exit, output_path, queue,
                dirCreations, fsVars, itemVars>>

(***************************************************************************)
(* Bounds of the model.                                                    *)
(***************************************************************************)
MaxW == 3     \* pixel images with arbitrary alpha: width up to MaxW
MaxH == 3     \* ... and height up to MaxH
MaxDim == 12  \* fully opaque images: width and height up to MaxDim

\* 2^31 - 1.  The dimensions are u32; the model's integers are narrower than
\* 2^32, so a wrapped difference is only ever held halved (see HalfWrappingSub).
HalfU32Less1 == 2147483647

AlphaValues == {0, 255}

Min(a, b) == IF a < b THEN a ELSE b

(***************************************************************************)
(* Images.                                                                 *)
(***************************************************************************)
Coords(w, h) == (0 .. (w - 1)) \X (0 .. (h - 1))

MkImage(w, h, f) == [width |-> w, height |-> h, px |-> f]

OpaqueImage(w, h) == MkImage(w, h, [p \in Coords(w, h) |-> 255])

\* the images of one size the pipeline is run on: every assignment of alpha
\* values up to MaxW x MaxH, the fully opaque image beyond
ImagesOfSize(w, h) ==
    IF w <= MaxW /\ h <= MaxH
    THEN { MkImage(w, h, f) : f \in [Coords(w, h) -> AlphaValues] }
    ELSE { OpaqueImage(w, h) }

NoImage == MkImage(0, 0, <<>>)

NoBox == [left |-> 0, top |-> 0, right |-> 0, bottom |-> 0]

\* img.get_pixel(x, y)[3]
Alpha(img, x, y) == img.px[<<x, y>>]

(***************************************************************************)
(* image::DynamicImage::crop_imm: the requested rectangle is clamped to    *)
(* the image (x to the width, y to the height, then the extent to what is  *)
(* left), and the pixels of the clamped rectangle are copied.              *)
(***************************************************************************)
crop_imm(img, x, y, width, height) ==
    LET cx == Min(x, img.width)
        cy == Min(y, img.height)
        cw == Min(width, img.width - cx)
        ch == Min(height, img.height - cy)
    IN  MkImage(cw, ch, [p \in Coords(cw, ch) |-> Alpha(img, p[1] + cx, p[2] + cy)])

(***************************************************************************)
(* crop_transparent_edges: four scans, each stopping at its first hit.     *)
(***************************************************************************)
\* the inner loop `for x in 0..width` of the two row scans
RowHit(img, y) == \E x \in 0 .. (img.width - 1) : Alpha(img, x, y) # 0

\* the inner loop `for y in top..bottom` of the two column scans
ColHit(img, x, top, bottom) == \E y \in top .. (bottom - 1) : Alpha(img, x, y) # 0

RECURSIVE ScanTop(_, _)
ScanTop(img, y) ==
    IF y >= img.height THEN 0
    ELSE IF RowHit(img, y) THEN y
    ELSE ScanTop(img, y + 1)

\* ScanBottom with the exclusive bound's `+ 1` forgotten
RECURSIVE ScanBottomOffByOne(_, _)
ScanBottomOffByOne(img, y) ==
    IF y < 0 THEN img.height
    ELSE IF RowHit(img, y) THEN y
    ELSE ScanBottomOffByOne(img, y - 1)

RECURSIVE ScanBottom(_, _)
ScanBottom(img, y) ==
    IF y < 0 THEN img.height
    ELSE IF RowHit(img, y) THEN y + 1
    ELSE ScanBottom(img, y - 1)

RECURSIVE ScanLeft(_, _, _, _)
ScanLeft(img, x, top, bottom) ==
    IF x >= img.width THEN 0
    ELSE IF ColHit(img, x, top, bottom) THEN x
    ELSE ScanLeft(img, x + 1, top, bottom)

\* ScanRight with the exclusive bound's `+ 1` forgotten
RECURSIVE ScanRightOffByOne(_, _, _, _)
ScanRightOffByOne(img, x, top, bottom) ==
    IF x < 0 THEN img.width
    ELSE IF ColHit(img, x, top, bottom) THEN x
    ELSE ScanRightOffByOne(img, x - 1, top, bottom)

RECURSIVE ScanRight(_, _, _, _)
ScanRight(img, x, top, bottom) ==
    IF x < 0 THEN img.width
    ELSE IF ColHit(img, x, top, bottom) THEN x + 1
    ELSE ScanRight(img, x - 1, top, bottom)

\* the rectangle {left, top, right, bottom} the scans arrive at
DetectBox(img) ==
    LET top == ScanTop(img, 0)
        bottom == ScanBottom(img, img.height - 1)
        left == ScanLeft(img, 0, top, bottom)
        right == ScanRight(img, img.width - 1, top, bottom)
    IN  [left |-> left, top |-> top, right |-> right, bottom |-> bottom]

crop_transparent_edges(img) ==
    LET b == DetectBox(img)
    IN  crop_imm(img, b.left, b.top, b.right - b.left, b.bottom - b.top)

(***************************************************************************)
(* crop_to_aspect_ratio.  The f32 arithmetic is exact on the dimensions of *)
(* the model: for width, height < 2^20 the correctly rounded quotient      *)
(* width/height compares with the f32 constants 2.0/5.0 and 5.0/2.0 as the *)
(* rationals do, and (height * 0.4f32) as u32 and (width / 2.5f32) as u32  *)
(* are floor(2*height/5) and floor(2*width/5).                             *)
(***************************************************************************)
TooNarrow(width, height) == 5 * width < 2 * height   \* aspect_ratio < min_aspect
TooWide(width, height) == 2 * width > 5 * height     \* aspect_ratio > max_aspect

\* (a - b) / 2 in u32 arithmetic, the subtraction wrapping as in a release
\* build: for a < b it is (2^32 - (b - a)) / 2 = 2^31 - 1 - (b - a - 1) / 2
HalfWrappingSub(a, b) ==
    IF a >= b THEN (a - b) \div 2 ELSE HalfU32Less1 - ((b - a - 1) \div 2)

\* the arguments of the crop_imm call of each branch, and whether the u32
\* subtraction that centres the window overflows
AspectWindow(width, height) ==
    IF TooNarrow(width, height) THEN
        LET new_width == (2 * height) \div 5
        IN  [branch |-> "narrow", overflow |-> new_width > width,
             x |-> HalfWrappingSub(width, new_width), y |-> 0,
             w |-> new_width, h |-> height]
    ELSE IF TooWide(width, height) THEN
        LET new_height == (2 * width) \div 5
        IN  [branch |-> "wide", overflow |-> new_height > height,
             x |-> 0, y |-> HalfWrappingSub(height, new_height),
             w |-> width, h |-> new_height]
    ELSE [branch |-> "none", overflow |-> FALSE, x |-> 0, y |-> 0,
          w |-> width, h |-> height]

\* the outcome of crop_to_aspect_ratio: a panic ("attempt to subtract with
\* overflow") in a build with overflow checks, otherwise the cropped image
crop_to_aspect_ratio(img, checks) ==
    LET win == AspectWindow(img.width, img.height)
    IN  IF win.overflow /\ checks THEN [panic |-> TRUE, img |-> NoImage]
        ELSE IF win.branch = "none" THEN [panic |-> FALSE, img |-> img]
        ELSE [panic |-> FALSE, img |-> crop_imm(img, win.x, win.y, win.w, win.h)]

(***************************************************************************)
(* The pipeline of process_file on one in-memory image.                    *)
(***************************************************************************)
GeomInit ==
    /\ overflowChecks \in BOOLEAN
    /\ \E w \in 1 .. MaxDim : \E h \in 1 .. MaxDim : gImg \in ImagesOfSize(w, h)
    /\ gStage = "decoded"
    /\ gBox = NoBox
    /\ gTrim = NoImage
    /\ gWin = AspectWindow(1, 1)
    /\ gOut = [panic |-> FALSE, img |-> NoImage]

GeomTrim ==
    /\ gStage = "decoded"
    /\ gBox' = DetectBox(gImg)
    /\ gTrim' = crop_transparent_edges(gImg)
    /\ gStage' = "trimmed"
    /\ UNCHANGED <<overflowChecks, gImg, gWin, gOut, driverVars>>

GeomClamp ==
    /\ gStage = "trimmed"
    /\ gWin' = AspectWindow(gTrim.width, gTrim.height)
    /\ gOut' = crop_to_aspect_ratio(gTrim, overflowChecks)
    /\ gStage' = "clamped"
    /\ UNCHANGED <<overflowChecks, gImg, gBox, gTrim, driverVars>>

GeomNext == GeomTrim \/ GeomClamp

(***************************************************************************)
(* The file system.  A file path is [dir, stem]; every file of the model   *)
(* has the extension .png (the only one glob's pattern lets through).      *)
(***************************************************************************)
MaxFiles == 2     \* number of files in the input directory
NumThreads == 2   \* --num-threads: the size of the rayon pool

InputDir == "in"
OtherDir == "out"
SingleStem == "a"

\* the stems of the input files, in the order glob yields them (sorted by
\* file name: "a.png" < "a_cropped.png" < "b.png")
StemOrder == <<"a", "a_cropped", "b">>
Stems == { StemOrder[k] : k \in 1 .. Len(StemOrder) }

Pos(stem) == CHOOSE k \in 1 .. Len(StemOrder) : StemOrder[k] = stem

\* Path::join
Join(dir, name) == dir \o "/" \o name

\* format!("{}_cropped.png", file_name), without the extension
CroppedStem(stem) == stem \o "_cropped"

FileDirs == {InputDir, Join(InputDir, "output"), OtherDir}
FilePaths == [dir : FileDirs, stem : Stems \cup { CroppedStem(s) : s \in Stems }]

Absent == [kind |-> "absent", img |-> NoImage]
Corrupt == [kind |-> "corrupt", img |-> NoImage]
ImageFile(img) == [kind |-> "image", img |-> img]

\* the decoded images the input files hold: one that crop_to_aspect_ratio
\* finds too narrow, one with a transparent column to trim, one to keep
Narrow == OpaqueImage(1, 5)
Padded == MkImage(3, 1, [p \in Coords(3, 1) |-> IF p[1] = 0 THEN 0 ELSE 255])
Square == OpaqueImage(2, 2)
FileContents == {Corrupt, ImageFile(Narrow), ImageFile(Padded), ImageFile(Square)}

\* cli_options.input_path
input_path == IF cliInput = "dir" THEN InputDir ELSE Join(InputDir, SingleStem \o ".png")

InputFile(stem) == [dir |-> InputDir, stem |-> stem]

\* Path::is_dir
is_dir(path) == path \in dirs

(***************************************************************************)
(* process_file, step by step: image::open, the two crops, save.           *)
(***************************************************************************)
\* an output name that forgets the stem of the input
output_file_fixed(stem) == [dir |-> output_path, stem |-> CroppedStem(SingleStem)]

\* output_dir.join(format!("{}_cropped.png", file_name))
output_file(stem) == [dir |-> output_path, stem |-> CroppedStem(stem)]

\* image::open: Err for a missing or undecodable file
Decodable(path) == files[path].kind = "image"

\* DynamicImage::save: Err when the directory does not exist or the encoder
\* rejects the image (PNG has no zero-width or zero-height image); the
\* file is written whole or not at all
Encodable(img, path) == path.dir \in dirs /\ img.width > 0 /\ img.height > 0

\* the closure of process_directory: `if let Err(e) = process_file(..)`
\* prints one line with the path; main's `?` prints nothing here
ReportErr(stem) ==
    IF mainPc = "batch" THEN [reported EXCEPT ![stem] = @ + 1] ELSE reported

InFlight == { s \in Stems : itemPc[s] \in {"taken", "decoded", "transformed"} }
Terminal == {"saved", "failed", "panicked"}

\* a pool thread takes the next path from the glob iterator (par_bridge)
Take(stem) ==
    /\ mainPc = "batch"
    /\ itemPc[stem] = "queued"
    /\ \A k \in 1 .. Len(queue) : Pos(queue[k]) < Pos(stem) => itemPc[queue[k]] # "queued"
    /\ Cardinality(InFlight) < NumThreads
    /\ itemPc' = [itemPc EXCEPT ![stem] = "taken"]
    /\ invoked' = [invoked EXCEPT ![stem] = @ + 1]
    /\ UNCHANGED <<overflowChecks, geomVars, cliInput, cliOutput, files0, mainPc, mode, exit,
                   output_path, queue, dirCreations, fsVars, itemBuf, itemErr,
                   written, reported>>

Open(stem) ==
    /\ mainPc \in {"batch", "single"}
    /\ itemPc[stem] = "taken"
    /\ IF Decodable(InputFile(stem))
       THEN /\ itemBuf' = [itemBuf EXCEPT ![stem] = files[InputFile(stem)].img]
            /\ itemPc' = [itemPc EXCEPT ![stem] = "decoded"]
            /\ UNCHANGED <<itemErr, reported>>
       ELSE /\ itemPc' = [itemPc EXCEPT ![stem] = "failed"]
            /\ itemErr' = [itemErr EXCEPT ![stem] = "decode"]
            /\ reported' = ReportErr(stem)
            /\ UNCHANGED itemBuf
    /\ UNCHANGED <<overflowChecks, geomVars, cliInput, cliOutput, files0, mainPc, mode, exit,
                   output_path, queue, dirCreations, fsVars, invoked, written>>

Transform(stem) ==
    /\ mainPc \in {"batch", "single"}
    /\ itemPc[stem] = "decoded"
    /\ LET cropped_img == crop_transparent_edges(itemBuf[stem])
           aspect_corrected_img == crop_to_aspect_ratio(cropped_img, overflowChecks)
       IN  IF aspect_corrected_img.panic
           THEN /\ itemPc' = [itemPc EXCEPT ![stem] = "panicked"]
                /\ itemBuf' = [itemBuf EXCEPT ![stem] = NoImage]
           ELSE /\ itemPc' = [itemPc EXCEPT ![stem] = "transformed"]
                /\ itemBuf' = [itemBuf EXCEPT ![stem] = aspect_corrected_img.img]
    /\ UNCHANGED <<overflowChecks, geomVars, cliInput, cliOutput, files0, mainPc, mode, exit,
                   output_path, queue, dirCreations, fsVars, itemErr, invoked,
                   written, reported>>

Save(stem) ==
    /\ mainPc \in {"batch", "single"}
    /\ itemPc[stem] = "transformed"
    /\ IF Encodable(itemBuf[stem], output_file(stem))
       THEN /\ files' = [files EXCEPT ![output_file(stem)] = ImageFile(itemBuf[stem])]
            /\ written' = [written EXCEPT ![stem] = @ + 1]
            /\ itemPc' = [itemPc EXCEPT ![stem] = "saved"]
            /\ UNCHANGED <<itemErr, reported>>
       ELSE /\ itemPc' = [itemPc EXCEPT ![stem] = "failed"]
            /\ itemErr' = [itemErr EXCEPT ![stem] = "encode"]
            /\ reported' = ReportErr(stem)
            /\ UNCHANGED <<files, written>>
    /\ UNCHANGED <<overflowChecks, geomVars, cliInput, cliOutput, files0, mainPc, mode, exit,
                   output_path, queue, dirCreations, dirs, itemBuf, invoked>>

(***************************************************************************)
(* main.                                                                   *)
(***************************************************************************)
\* ThreadPoolBuilder::build_global()?
BuildPool ==
    /\ mainPc = "start"
    /\ mainPc' = "pool"
    /\ UNCHANGED <<overflowChecks, geomVars, cliInput, cliOutput, files0, mode, exit,
                   output_path, queue, dirCreations, fsVars, itemVars>>

\* ... the pool cannot be built (no thread can be spawned): main returns Err
BuildPoolFails ==
    /\ mainPc = "start"
    /\ mainPc' = "done"
    /\ exit' = "error"
    /\ UNCHANGED <<overflowChecks, geomVars, cliInput, cliOutput, files0, mode,
                   output_path, queue, dirCreations, fsVars, itemVars>>

\* create_dir_all(<input_path>/output) fails when input_path is a regular
\* file; otherwise it makes the directories of the path that are missing
InputIsRegularFile == cliInput = "file" /\ files[InputFile(SingleStem)].kind # "absent"

\* the default output path taken without create_dir_all
ResolveOutputNoCreate ==
    /\ mainPc = "pool"
    /\ output_path' = (IF cliOutput = "none" THEN Join(input_path, "output")
                       ELSE IF cliOutput = "same" THEN InputDir ELSE OtherDir)
    /\ mainPc' = "resolved"
    /\ UNCHANGED <<overflowChecks, geomVars, cliInput, cliOutput, files0, mode, exit,
                   queue, dirCreations, fsVars, itemVars>>

\* cli_options.output_path.unwrap_or_else(|| { ...create_dir_all...expect })
ResolveOutput ==
    /\ mainPc = "pool"
    /\ IF cliOutput = "none"
       THEN LET default_output == Join(input_path, "output")
            IN  IF ~InputIsRegularFile
                THEN /\ dirs' = dirs \cup {input_path, default_output}
                     /\ dirCreations' = dirCreations + 1
                     /\ output_path' = default_output
                     /\ mainPc' = "resolved"
                     /\ UNCHANGED exit
                ELSE /\ mainPc' = "done"
                     /\ exit' = "panic"
                     /\ UNCHANGED <<dirs, dirCreations, output_path>>
       ELSE /\ output_path' = (IF cliOutput = "same" THEN InputDir ELSE OtherDir)
            /\ mainPc' = "resolved"
            /\ UNCHANGED <<dirs, dirCreations, exit>>
    /\ UNCHANGED <<overflowChecks, geomVars, cliInput, cliOutput, files0, mode, queue,
                   files, itemVars>>

\* glob(input_dir/*.png): the files of the directory, sorted by name
Glob(dir) ==
    IF dir = InputDir
    THEN SelectSeq(StemOrder, LAMBDA s : files[InputFile(s)].kind # "absent")
    ELSE <<>>

\* main's branch to process_directory, up to the dispatch of the workers
EnterDirectory ==
    /\ mainPc = "resolved"
    /\ is_dir(input_path)
    /\ queue' = Glob(input_path)
    /\ itemPc' = [s \in Stems |->
                    IF \E k \in 1 .. Len(Glob(input_path)) : Glob(input_path)[k] = s
                    THEN "queued" ELSE "idle"]
    /\ mainPc' = "batch"
    /\ mode' = "directory"
    /\ UNCHANGED <<overflowChecks, geomVars, cliInput, cliOutput, files0, exit,
                   output_path, dirCreations, fsVars, itemBuf, itemErr, invoked,
                   written, reported>>

\* for_each returns when every path has been handled.  A panic of the
\* closure is not an Err: rayon keeps it, lets the other folds of the bridge
\* drain the iterator (a batch of these bounds has fewer panicking items
\* than the NumThreads + 1 folds) and resumes it in the caller, so that
\* process_directory unwinds through main; otherwise Ok(()) reaches main
FinishDirectory ==
    /\ mainPc = "batch"
    /\ \A k \in 1 .. Len(queue) : itemPc[queue[k]] \in Terminal
    /\ mainPc' = "done"
    /\ exit' = (IF \E s \in Stems : itemPc[s] = "panicked" THEN "panic" ELSE "ok")
    /\ UNCHANGED <<overflowChecks, geomVars, cliInput, cliOutput, files0, mode,
                   output_path, queue, dirCreations, fsVars, itemVars>>

\* main's branch to process_file(&cli_options.input_path, &output_path)
EnterFile ==
    /\ mainPc = "resolved"
    /\ ~is_dir(input_path)
    /\ itemPc' = [itemPc EXCEPT ![SingleStem] = "taken"]
    /\ invoked' = [invoked EXCEPT ![SingleStem] = @ + 1]
    /\ mainPc' = "single"
    /\ mode' = "file"
    /\ UNCHANGED <<overflowChecks, geomVars, cliInput, cliOutput, files0, exit,
                   output_path, queue, dirCreations, fsVars, itemBuf, itemErr,
                   written, reported>>

\* main with the `?` on process_file replaced by a discarded result
FinishFileSwallow ==
    /\ mainPc = "single"
    /\ itemPc[SingleStem] \in Terminal
    /\ mainPc' = "done"
    /\ exit' = (IF itemPc[SingleStem] = "panicked" THEN "panic" ELSE "ok")
    /\ UNCHANGED <<overflowChecks, geomVars, cliInput, cliOutput, files0, mode,
                   output_path, queue, dirCreations, fsVars, itemVars>>

\* process_file(..)? in main: Err is returned from main, Ok falls to Ok(())
FinishFile ==
    /\ mainPc = "single"
    /\ itemPc[SingleStem] \in Terminal
    /\ mainPc' = "done"
    /\ exit' = (IF itemPc[SingleStem] = "panicked" THEN "panic"
                ELSE IF itemPc[SingleStem] = "failed" THEN "error"
                ELSE "ok")
    /\ UNCHANGED <<overflowChecks, geomVars, cliInput, cliOutput, files0, mode,
                   output_path, queue, dirCreations, fsVars, itemVars>>

(***************************************************************************)
(* The initial states: a build, a command line and a file system.          *)
(***************************************************************************)
InputSets ==
    IF cliInput = "dir"
    THEN { S \in SUBSET Stems : Cardinality(S) <= MaxFiles }
    ELSE { S \in SUBSET {SingleStem} : TRUE }

DriverInit ==
    /\ overflowChecks \in BOOLEAN
    /\ cliInput \in {"dir", "file"}
    /\ cliOutput \in {"none", "out", "same"}
    /\ \E S \in InputSets : \E c \in [S -> FileContents] :
         files = [p \in FilePaths |->
                    IF p.dir = InputDir /\ p.stem \in S THEN c[p.stem] ELSE Absent]
    /\ files0 = files
    /\ \E outExists \in BOOLEAN :
         /\ outExists => cliOutput = "out"
         /\ dirs = {InputDir} \cup (IF outExists THEN {OtherDir} ELSE {})
    /\ mainPc = "start"
    /\ mode = "none"
    /\ exit = "running"
    /\ output_path = ""
    /\ queue = <<>>
    /\ itemPc = [s \in Stems |-> "idle"]
    /\ itemBuf = [s \in Stems |-> NoImage]
    /\ itemErr = [s \in Stems |-> "none"]
    /\ invoked = [s \in Stems |-> 0]
    /\ written = [s \in Stems |-> 0]
    /\ reported = [s \in Stems |-> 0]
    /\ dirCreations = 0

\* the driver at rest, for the specification of the pipeline alone
DriverIdle ==
    /\ cliInput = "dir"
    /\ cliOutput = "none"
    /\ files = [p \in FilePaths |-> Absent]
    /\ files0 = files
    /\ dirs = {}
    /\ mainPc = "done"
    /\ mode = "none"
    /\ exit = "ok"
    /\ output_path = ""
    /\ queue = <<>>
    /\ itemPc = [s \in Stems |-> "idle"]
    /\ itemBuf = [s \in Stems |-> NoImage]
    /\ itemErr = [s \in Stems |-> "none"]
    /\ invoked = [s \in Stems |-> 0]
    /\ written = [s \in Stems |-> 0]
    /\ reported = [s \in Stems |-> 0]
    /\ dirCreations = 0

\* the pipeline at rest, for the specification of the driver
GeomIdle ==
    /\ gStage = "clamped"
    /\ gImg = NoImage
    /\ gBox = NoBox
    /\ gTrim = NoImage
    /\ gWin = AspectWindow(1, 1)
    /\ gOut = [panic |-> FALSE, img |-> NoImage]

Init == DriverInit /\ GeomIdle

Next ==
    \/ BuildPool
    \/ BuildPoolFails
    \/ ResolveOutput
    \/ EnterDirectory
    \/ EnterFile
    \/ \E stem \in Stems : Take(stem)
    \/ \E stem \in Stems : Open(stem)
    \/ \E stem \in Stems : Transform(stem)
    \/ \E stem \in Stems : Save(stem)
    \/ FinishDirectory
    \/ FinishFile

vars == <<overflowChecks, geomVars, driverVars>>

\* the program: main on a command line and a file system
Spec == Init /\ [][Next]_vars

\* the program under a scheduler that lets an enabled step happen: main runs
\* on, and a pool thread that can take or continue an item does
FairSpec == Spec /\ WF_vars(Next)

\* the pipeline alone, on every image of the bounds
InitGeom == GeomInit /\ DriverIdle

SpecGeom == InitGeom /\ [][GeomNext]_vars

(***************************************************************************)
(* Reference notions the properties are stated with.                       *)
(***************************************************************************)
OpaquePixels(img) == { p \in Coords(img.width, img.height) : Alpha(img, p[1], p[2]) # 0 }

SetMin(S) == CHOOSE m \in S : \A n \in S : m <= n
SetMax(S) == CHOOSE m \in S : \A n \in S : m >= n

WholeBox(img) == [left |-> 0, top |-> 0, right |-> img.width, bottom |-> img.height]

\* the minimal half-open rectangle around the non-transparent pixels, the
\* whole image when there is none
ReferenceBox(img) ==
    LET O == OpaquePixels(img)
        xs == { p[1] : p \in O }
        ys == { p[2] : p \in O }
    IN  IF O = {} THEN WholeBox(img)
        ELSE [left |-> SetMin(xs), top |-> SetMin(ys),
              right |-> SetMax(xs) + 1, bottom |-> SetMax(ys) + 1]

\* 2/5 <= width/height <= 5/2
InEnvelope(width, height) ==
    height > 0 /\ 5 * width >= 2 * height /\ 2 * width <= 5 * height

Conforming(img) == ReferenceBox(img) = WholeBox(img) /\ InEnvelope(img.width, img.height)

Enumerated == { queue[k] : k \in 1 .. Len(queue) }

BatchDone == mode = "directory" /\ mainPc = "done"

\* process_file run to its end on one item alone
ProcessAlone(fs, stem) ==
    IF fs[InputFile(stem)].kind # "image" THEN fs
    ELSE LET out == crop_to_aspect_ratio(
                        crop_transparent_edges(fs[InputFile(stem)].img), overflowChecks)
         IN  IF ~out.panic /\ Encodable(out.img, output_file(stem))
             THEN [fs EXCEPT ![output_file(stem)] = ImageFile(out.img)]
             ELSE fs

\* the items handled one after the other, in glob's order
RECURSIVE Sequential(_, _)
Sequential(fs, q) ==
    IF q = <<>> THEN fs ELSE Sequential(ProcessAlone(fs, Head(q)), Tail(q))

\* an enumerated input file is the output file of another item
Clash ==
    \E s \in Enumerated : \E t \in Enumerated : s # t /\ output_file(s) = InputFile(t)

(***************************************************************************)
(* C1: the rectangle crop_transparent_edges computes is the minimal        *)
(* half-open rectangle around the pixels with alpha # 0, and the whole     *)
(* image {0, 0, W, H} when every pixel is transparent.                     *)
(***************************************************************************)
C1_BoundingBoxIsReference == gStage # "decoded" => gBox = ReferenceBox(gImg)

C1_Witness ==
    /\ gStage = "trimmed"
    /\ OpaquePixels(gImg) # {}
    /\ gBox.left > 0 /\ gBox.top > 0
    /\ gBox.right < gImg.width /\ gBox.bottom < gImg.height

(***************************************************************************)
(* C2: whenever crop_to_aspect_ratio takes one of its two clamping         *)
(* branches, the image it returns has a width/height ratio in [2/5, 5/2].  *)
(***************************************************************************)
C2_ClampedRatioInEnvelope ==
    (gStage = "clamped" /\ gWin.branch # "none")
        => (~gOut.panic /\ InEnvelope(gOut.img.width, gOut.img.height))

(***************************************************************************)
(* C3: when a directory batch has ended, every item that did not end in    *)
(* an output file was reported exactly once and wrote nothing, and every   *)
(* other item wrote its output exactly once and was not reported.          *)
(***************************************************************************)
C3_FailuresCaughtAndIsolated ==
    BatchDone =>
        \A s \in Enumerated :
            IF itemPc[s] = "saved"
            THEN written[s] = 1 /\ reported[s] = 0
            ELSE written[s] = 0 /\ reported[s] = 1

(***************************************************************************)
(* C4: a directory run ends with success (exit code 0) whatever the        *)
(* outcomes of its items.                                                  *)
(***************************************************************************)
C4_BatchExitsOk == BatchDone => exit = "ok"

C6_OutputDirBeforeDispatch ==
    /\ dirCreations <= 1
    /\ \A s \in Stems :
          itemPc[s] # "idle" =>
              /\ mainPc \in {"batch", "single", "done"}
              /\ cliOutput = "none" =>
                    /\ dirCreations = 1
                    /\ output_path = Join(input_path, "output")
                    /\ is_dir(output_path)

C6_Witness ==
    /\ cliOutput = "none"
    /\ dirCreations = 1
    /\ \E s \in Stems : itemPc[s] = "saved"

(***************************************************************************)
(* C7: an image whose bounding box is the whole image and whose ratio is   *)
(* in [2/5, 5/2] leaves the pipeline with the same width, height and       *)
(* pixels.                                                                 *)
(***************************************************************************)
C7_ConformingImageUnchanged ==
    (gStage = "clamped" /\ Conforming(gImg)) => (~gOut.panic /\ gOut.img = gImg)

C7_Witness ==
    /\ gStage = "clamped"
    /\ Conforming(gImg)
    /\ gImg.width # gImg.height
    /\ \E p \in Coords(gImg.width, gImg.height) : Alpha(gImg, p[1], p[2]) = 0

(***************************************************************************)
(* C8: in single-file mode a decode or encode failure of process_file      *)
(* ends the run with main's error result, is not printed as a batch        *)
(* failure, and a failed decode leaves every file as it was.               *)
(***************************************************************************)
C8_SingleFileErrorSurfaces ==
    (mode = "file" /\ mainPc = "done" /\ itemErr[SingleStem] # "none") =>
        /\ exit = "error"
        /\ reported[SingleStem] = 0
        /\ itemErr[SingleStem] = "decode" => files = files0

C8_Witness ==
    /\ mode = "file"
    /\ mainPc = "done"
    /\ itemErr[SingleStem] = "decode"
    /\ exit = "error"

(***************************************************************************)
(* C9: the crop window of crop_to_aspect_ratio lies inside the trimmed     *)
(* image and its centring subtraction stays in the u32 range: in the       *)
(* too-narrow branch new_width <= width and new_left + new_width <= width, *)
(* in the too-wide branch new_height <= height and new_top + new_height    *)
(* <= height.                                                              *)
(***************************************************************************)
C9_CropWindowInsideImage ==
    gStage = "clamped" =>
        /\ gWin.branch = "narrow" =>
              (~gWin.overflow /\ 0 <= gWin.x /\ gWin.x + gWin.w <= gTrim.width)
        /\ gWin.branch = "wide" =>
              (~gWin.overflow /\ 0 <= gWin.y /\ gWin.y + gWin.h <= gTrim.height)

(***************************************************************************)
(* C10: when process_directory is over it has returned, and process_file   *)
(* was invoked exactly once on every enumerated item and on no other,      *)
(* ending in exactly one of an output write and a reported failure.        *)
(***************************************************************************)
C10_EveryItemHandledOnce ==
    BatchDone =>
        /\ exit # "panic"
        /\ \A s \in Stems : invoked[s] = (IF s \in Enumerated THEN 1 ELSE 0)
        /\ \A s \in Enumerated : written[s] + reported[s] = 1

\* the termination half of C10 on its own: under FairSpec every run ends
RunTerminates == <>(mainPc = "done")


=============================================================================
